---- MODULE Spec2Model ----
(***************************************************************************)
(* Model of the supercharge package: conversion of a 4096 byte ROM image   *)
(* into the samples of a Supercharger tape and their serialisation as a    *)
(* WAV container (Convert, bitPacker, wav, tone, Validate).                *)
(*                                                                         *)
(* Three specifications share the variables:                               *)
(*   Spec      Convert, one action per phase of the function (one per      *)
(*             iteration of the block loop);                               *)
(*   SpecByte  bitPacker.writeByte, one action per iteration of its loop;  *)
(*   SpecDur   bitPacker.writeByteDuration, one action per iteration.      *)
(* Bytes are integers 0..255, byte arithmetic is taken modulo 256.         *)
(* Durations are counted in tenths of a second.                            *)
(*                                                                         *)
(* A byte buffer (wav.data, the output sink) is kept as the sequence of    *)
(* its segments, in order.  A segment [kind, bytes, count] stands for      *)
(*   kind = "raw":  the bytes `bytes', repeated `count' times;             *)
(*   kind = "enc":  the samples writeByte appends for each byte of `bytes'.*)
(* SegBytes gives the bytes of a segment, BufLen and BufTake the length    *)
(* and the first bytes of a buffer.                                        *)
(***************************************************************************)
EXTENDS Integers, Sequences, FiniteSets, TLC

VARIABLES
    rom,        \* the ROM handed to Convert, a sequence of bytes (rom[k+1] is Go's rom[k])
    pc,         \* position in the function under observation
    block,      \* Convert: the block loop variable
    data,       \* wav.data, the sample buffer, as segments
    written,    \* the arguments of the calls of writeByte so far, in order
    out,        \* the bytes written to the output sink w, as segments
    logger,     \* the lines written to the logger
    curByte,    \* writeByte: b, as shifted by the loop
    argByte,    \* writeByte / writeByteDuration: the argument b
    loopI,      \* writeByte / writeByteDuration: the loop variable i
    sinkWrites, \* writeByte: the arguments of the calls of w.Write, in order
    durTenths   \* writeByteDuration: the argument duration, in tenths of a second

vars == <<rom, pc, block, data, written, out, logger,
          curByte, argByte, loopI, sinkWrites, durTenths>>

----------------------------------------------------------------------------
(* Bounds of the model *)

\* address bytes rom[len-4], rom[len-3] range over AddrLow(j), AddrHigh(j), j in 0..MaxAddr
MaxAddr == 1
\* the other ROM bytes follow one of the patterns Fill(k, .), k in 0..MaxFill
MaxFill == 2
\* writeByteDuration is observed for durations 0..MaxTenths tenths of a second
MaxTenths == 5

----------------------------------------------------------------------------
(* Constants of the program *)

startToneTenths == 1
headerToneTenths == 5
endToneTenths == 5
TenthsPerSecond == 10

startToneCycle == 51
zeroToneCycle == 6
oneToneCycle == 10

sampleRate == 44100

wavFormat == 1
wavChannels == 1
wavDepth == 8

RomSize == 4096
BlockSize == 256

Byte == 0..255

\* 8 bit subtraction, ignoring underflow
Sub8(a, b) == (a - b + 256) % 256

\* the sum of s[lo..hi] (the range is halved to keep the evaluation shallow)
RECURSIVE SumRange(_, _, _)
SumRange(s, lo, hi) ==
    IF lo > hi THEN 0
    ELSE IF lo = hi THEN s[lo]
    ELSE LET mid == (lo + hi) \div 2
         IN  SumRange(s, lo, mid) + SumRange(s, mid + 1, hi)

\* the concatenation of s[lo], ..., s[hi]
RECURSIVE ConcatRange(_, _, _)
ConcatRange(s, lo, hi) ==
    IF lo > hi THEN <<>>
    ELSE IF lo = hi THEN s[lo]
    ELSE LET mid == (lo + hi) \div 2
         IN  ConcatRange(s, lo, mid) \o ConcatRange(s, mid + 1, hi)

\* bitwise and of two naturals
RECURSIVE BitAnd(_, _)
BitAnd(a, b) ==
    IF a = 0 \/ b = 0 THEN 0
    ELSE ((a % 2) * (b % 2)) + 2 * BitAnd(a \div 2, b \div 2)

\* little-endian encodings, as written by wav.Bytes
LE16(n) == <<n % 256, (n \div 256) % 256>>

\* LE32 with the shift of the third byte wrong
LE32Dup(n) == <<n % 256, (n \div 256) % 256, (n \div 256) % 256, (n \div 16777216) % 256>>
LE32(n) == <<n % 256, (n \div 256) % 256, (n \div 65536) % 256, (n \div 16777216) % 256>>

\* little-endian decoding of the bytes s[from .. from+n-1]
RECURSIVE DecodeLE(_, _, _)
DecodeLE(s, from, n) ==
    IF n = 0 THEN 0 ELSE s[from] + 256 * DecodeLE(s, from + 1, n - 1)

----------------------------------------------------------------------------
(* tone: one cycle of a sine wave, byte((sin(2*pi*i/length)*volume + 1) * 128), *)
(* tabulated for the three (length, volume) pairs the program uses.             *)

zeroBit == <<128, 236, 236, 128, 19, 19>>
oneBit == <<128, 201, 247, 247, 201, 128, 54, 8, 8, 54>>
startTone ==
    <<128, 143, 158, 173, 187, 200, 212, 223, 232, 240, 246, 250, 252, 253,
      251, 248, 243, 236, 228, 218, 206, 194, 180, 166, 151, 135, 120, 104,
      89, 75, 61, 49, 37, 27, 19, 12, 7, 4, 2, 3, 5, 9, 15, 23, 32, 43, 55,
      68, 82, 97, 112>>

----------------------------------------------------------------------------
(* wav.Write *)

SegRaw(p, n) == [kind |-> "raw", bytes |-> p, count |-> n]
SegEnc(bs) == [kind |-> "enc", bytes |-> bs, count |-> 1]

\* the bytes one call of wav.Write(p) appends: every byte of p once per channel
wavSamples(p) == [k \in 1..(Len(p) * wavChannels) |-> p[((k - 1) \div wavChannels) + 1]]

\* wav.Write(p)
WavWrite(buf, p) == Append(buf, SegRaw(wavSamples(p), 1))

\* n calls of wav.Write(p) in a row
WavWriteTimes(buf, p, n) == Append(buf, SegRaw(wavSamples(p), n))

----------------------------------------------------------------------------
(* bitPacker *)

bytesPerSecond == (sampleRate \div (zeroToneCycle + oneToneCycle)) \div 4

\* BitTable testing the bottom bit
BitTableLow(b) == IF b % 2 = 1 THEN oneBit ELSE zeroBit

\* the table writeByte writes for the top bit of b
BitTable(b) == IF b \div 128 = 1 THEN oneBit ELSE zeroBit

ShiftLeft(b) == (b * 2) % 256

\* writeByte, iterations i..7 of the loop, on the sample bytes s
RECURSIVE writeByteFrom(_, _, _)
writeByteFrom(s, b, i) ==
    IF i >= 8 THEN s
    ELSE writeByteFrom(s \o wavSamples(BitTable(b)), ShiftLeft(b), i + 1)

\* the samples one call of writeByte(b) appends to the wav, for every byte b
writeByte == [b \in Byte |-> writeByteFrom(<<>>, b, 0)]

\* writeByte(bs[1]), ..., writeByte(bs[Len(bs)]) in a row
writeBytes(buf, bs) == Append(buf, SegEnc(bs))

\* durationCount rounding up
durationCountCeil(tenths) ==
    ((tenths * bytesPerSecond) + TenthsPerSecond - 1) \div TenthsPerSecond

\* int(duration * float64(bytesPerSecond))
durationCount(tenths) == (tenths * bytesPerSecond) \div TenthsPerSecond

\* the byte writeByteDuration(b, .) hands to writeByte in every iteration
durationByte(b) == 85

\* writeByteDuration: the arguments of its calls of writeByte
writeByteDuration(b, tenths) == [k \in 1..durationCount(tenths) |-> durationByte(b)]

----------------------------------------------------------------------------
(* The bytes of a buffer *)

\* the number of bytes of a segment
SegLen(g) ==
    IF g.kind = "raw" THEN Len(g.bytes) * g.count
    ELSE SumRange([k \in 1..Len(g.bytes) |-> Len(writeByte[g.bytes[k]])], 1, Len(g.bytes))

\* the bytes of a segment
SegBytes(g) ==
    IF g.kind = "raw" THEN [k \in 1..(Len(g.bytes) * g.count) |-> g.bytes[((k - 1) % Len(g.bytes)) + 1]]
    ELSE ConcatRange([k \in 1..Len(g.bytes) |-> writeByte[g.bytes[k]]], 1, Len(g.bytes))

\* bytes.Buffer.Len
BufLen(buf) == SumRange([k \in 1..Len(buf) |-> SegLen(buf[k])], 1, Len(buf))

\* bytes.Buffer.Bytes, for a buffer that is small
BufBytes(buf) == ConcatRange([k \in 1..Len(buf) |-> SegBytes(buf[k])], 1, Len(buf))

\* the first n bytes of the segments buf[i], buf[i+1], ...
RECURSIVE BufTakeFrom(_, _, _)
BufTakeFrom(buf, i, n) ==
    IF n <= 0 \/ i > Len(buf) THEN <<>>
    ELSE IF SegLen(buf[i]) >= n THEN SubSeq(SegBytes(buf[i]), 1, n)
    ELSE SegBytes(buf[i]) \o BufTakeFrom(buf, i + 1, n - SegLen(buf[i]))

BufTake(buf, n) == BufTakeFrom(buf, 1, n)

----------------------------------------------------------------------------
(* wav.Bytes *)

fmtSubChunk ==
    LE16(wavFormat) \o LE16(wavChannels) \o LE32(sampleRate) \o LE32(sampleRate)
        \o LE16(BitAnd(wavChannels, wavDepth)) \o LE16(wavDepth)

TagRIFF == <<82, 73, 70, 70>>
TagWAVE == <<87, 65, 86, 69>>
TagFmt == <<102, 109, 116, 32>>
TagData == <<100, 97, 116, 97>>

\* waveChunk without the length of the data sub-chunk
waveChunkNoDataLen(buf) ==
    <<SegRaw(TagWAVE \o TagFmt \o LE32(Len(fmtSubChunk)) \o fmtSubChunk \o TagData, 1)>>
        \o buf

waveChunk(buf) ==
    <<SegRaw(TagWAVE \o TagFmt \o LE32(Len(fmtSubChunk)) \o fmtSubChunk
                \o TagData \o LE32(BufLen(buf)), 1)>>
        \o buf

\* wav.Bytes
WavBytes(buf) ==
    <<SegRaw(TagRIFF \o LE32(BufLen(waveChunk(buf))), 1)>> \o waveChunk(buf)

----------------------------------------------------------------------------
(* Convert *)

startCount == (startToneTenths * sampleRate) \div (TenthsPerSecond * startToneCycle)

\* the start tone loop: startCount calls of wav.Write(start.Bytes())
writeStartTone(buf) == WavWriteTimes(buf, startTone, startCount)

syncByte == 84
bankConfig == 29
multiload == 0
progressSpeedLow == 195
progressSpeedHigh == 1
checksumSeed == 85
pageLimit == 31

\* Go's r[k], r being a sequence
At(r, k) == r[k + 1]

blockCount(r) == (Len(r) \div BlockSize) % 256

addressLow(r) == At(r, Len(r) - 4)
addressHigh(r) == At(r, Len(r) - 3)

\* headerChecksum without the bank configuration
headerChecksumNoBank(r) ==
    Sub8(Sub8(Sub8(Sub8(Sub8(Sub8(checksumSeed, addressLow(r)), addressHigh(r)),
        blockCount(r)), multiload), progressSpeedLow), progressSpeedHigh)

\* the header checksum, subtraction by subtraction
headerChecksum(r) ==
    Sub8(Sub8(Sub8(Sub8(Sub8(Sub8(Sub8(checksumSeed, addressLow(r)), addressHigh(r)),
        bankConfig), blockCount(r)), multiload), progressSpeedLow), progressSpeedHigh)

\* headerBytes with the checksum written last
headerBytesChecksumLast(r) ==
    <<addressLow(r), addressHigh(r), bankConfig, blockCount(r), multiload,
      progressSpeedLow, progressSpeedHigh, headerChecksum(r)>>

\* the 8 header bytes in the order of the calls of writeByte
headerBytes(r) ==
    <<addressLow(r), addressHigh(r), bankConfig, blockCount(r), headerChecksum(r),
      multiload, progressSpeedLow, progressSpeedHigh>>

\* blockPage wrapping by 0x20
blockPageSub32(b) ==
    LET page == ((b * 4) + 1) % 256
    IN  IF page > pageLimit THEN Sub8(page, pageLimit + 1) ELSE page

\* the page byte of a block
blockPage(b) ==
    LET page == ((b * 4) + 1) % 256
    IN  IF page > pageLimit THEN Sub8(page, pageLimit) ELSE page

\* rom[s : s+256]
blockSlice(r, b) == [k \in 1..BlockSize |-> At(r, b * BlockSize + k - 1)]

\* checksum -= b for the bytes s[lo], ..., s[hi], in this order
\* (the range is halved to keep the evaluation shallow; c is always a byte)
RECURSIVE subtractRange(_, _, _, _)
subtractRange(c, s, lo, hi) ==
    IF c \notin Byte \/ lo > hi THEN c
    ELSE IF lo = hi THEN Sub8(c, s[lo])
    ELSE LET mid == (lo + hi) \div 2
         IN  subtractRange(subtractRange(c, s, lo, mid), s, mid + 1, hi)

\* blockChecksum without the page
blockChecksumNoPage(r, b) ==
    subtractRange(checksumSeed, blockSlice(r, b), 1, BlockSize)

blockChecksum(r, b) ==
    subtractRange(Sub8(checksumSeed, blockPage(b)), blockSlice(r, b), 1, BlockSize)

\* the bytes handed to writeByte in one iteration of the block loop
blockBytes(r, b) == <<blockPage(b), blockChecksum(r, b)>> \o blockSlice(r, b)

\* the bytes handed to writeByte by iterations lo..hi of the block loop
RECURSIVE blocksRange(_, _, _)
blocksRange(r, lo, hi) ==
    IF lo > hi THEN <<>>
    ELSE IF lo = hi THEN blockBytes(r, lo)
    ELSE LET mid == (lo + hi) \div 2
         IN  blocksRange(r, lo, mid) \o blocksRange(r, mid + 1, hi)

\* Convert as a function of the ROM: the bytes it hands to writeByte
convertWritten(r) ==
    writeByteDuration(85, headerToneTenths) \o <<syncByte>> \o headerBytes(r)
        \o blocksRange(r, 0, blockCount(r) - 1) \o writeByteDuration(0, endToneTenths)

\* Convert as a function of the ROM: the samples it accumulates in wav.data
convertData(r) == writeBytes(writeStartTone(<<>>), convertWritten(r))

\* "%02x"
HexDigit == <<"0", "1", "2", "3", "4", "5", "6", "7", "8", "9", "a", "b", "c", "d", "e", "f">>
Hex2(b) == <<HexDigit[(b \div 16) + 1], HexDigit[(b % 16) + 1]>>

headerLog(r) ==
    << <<"address">> \o Hex2(addressHigh(r)) \o Hex2(addressLow(r)),
       <<"bank config">> \o Hex2(bankConfig),
       <<"block count">> \o Hex2(blockCount(r)),
       <<"multiload">> \o Hex2(multiload),
       <<"load speed">> \o Hex2(progressSpeedHigh) \o Hex2(progressSpeedLow),
       <<"checksum">> \o Hex2(headerChecksum(r)) >>

blockLog(r, b) == <<"block", b, "checksum">> \o Hex2(blockChecksum(r, b))

----------------------------------------------------------------------------
(* Validate, and the ROMs of the model *)

Validate(r) == Len(r) = RomSize

AddrLow(j) == (52 * j) % 256
AddrHigh(j) == (18 * j) % 256

\* pattern 0 is all 0x00, pattern 1 all 0xff, pattern k >= 2 is k*(i+1) mod 256
Fill(k, i) ==
    IF k = 0 THEN 0 ELSE IF k = 1 THEN 255 ELSE (k * (i + 1)) % 256

MakeRom(jl, jh, k) ==
    [n \in 1..RomSize |->
        IF n - 1 = RomSize - 4 THEN AddrLow(jl)
        ELSE IF n - 1 = RomSize - 3 THEN AddrHigh(jh)
        ELSE Fill(k, n - 1)]

Roms == {MakeRom(jl, jh, k) : jl \in 0..MaxAddr, jh \in 0..MaxAddr, k \in 0..MaxFill}

----------------------------------------------------------------------------
(* Spec: Convert *)

Idle ==
    /\ curByte = 0 /\ argByte = 0 /\ loopI = 0 /\ sinkWrites = <<>> /\ durTenths = 0

Init ==
    /\ rom \in {r \in Roms : Validate(r)}
    /\ pc = "start"
    /\ block = 0
    /\ data = <<>>
    /\ written = <<>>
    /\ out = <<>>
    /\ logger = <<>>
    /\ Idle

others == <<curByte, argByte, loopI, sinkWrites, durTenths>>

\* the start tone, written to the wav directly
StartTone ==
    /\ pc = "start"
    /\ data' = writeStartTone(data)
    /\ pc' = "calibrate"
    /\ UNCHANGED <<rom, block, written, out, logger, others>>

\* pck.writeByteDuration(0x55, headerToneSeconds)
Calibrate ==
    /\ pc = "calibrate"
    /\ LET bs == writeByteDuration(85, headerToneTenths)
       IN  /\ written' = written \o bs
           /\ data' = writeBytes(data, bs)
    /\ pc' = "sync"
    /\ UNCHANGED <<rom, block, out, logger, others>>

\* pck.writeByte(0x54)
Sync ==
    /\ pc = "sync"
    /\ written' = Append(written, syncByte)
    /\ data' = writeBytes(data, <<syncByte>>)
    /\ pc' = "header"
    /\ UNCHANGED <<rom, block, out, logger, others>>

\* the header: its log lines and its 8 bytes
Header ==
    /\ pc = "header"
    /\ logger' = logger \o headerLog(rom)
    /\ written' = written \o headerBytes(rom)
    /\ data' = writeBytes(data, headerBytes(rom))
    /\ block' = 0
    /\ pc' = "blocks"
    /\ UNCHANGED <<rom, out, others>>

\* one iteration of the block loop
Block ==
    /\ pc = "blocks"
    /\ block < blockCount(rom)
    /\ logger' = Append(logger, blockLog(rom, block))
    /\ LET bs == blockBytes(rom, block)
       IN  /\ written' = written \o bs
           /\ data' = writeBytes(data, bs)
    /\ block' = (block + 1) % 256
    /\ UNCHANGED <<rom, pc, out, others>>

\* the end of the block loop and pck.writeByteDuration(0x00, endToneSeconds)
Trailer ==
    /\ pc = "blocks"
    /\ ~(block < blockCount(rom))
    /\ LET bs == writeByteDuration(0, endToneTenths)
       IN  /\ written' = written \o bs
           /\ data' = writeBytes(data, bs)
    /\ pc' = "serialise"
    /\ UNCHANGED <<rom, block, out, logger, others>>

\* w.Write(wav.Bytes()); return nil
Serialise ==
    /\ pc = "serialise"
    /\ out' = out \o WavBytes(data)
    /\ pc' = "done"
    /\ UNCHANGED <<rom, block, data, written, logger, others>>

Next ==
    \/ StartTone
    \/ Calibrate
    \/ Sync
    \/ Header
    \/ Block
    \/ Trailer
    \/ Serialise

Spec == Init /\ [][Next]_vars

----------------------------------------------------------------------------
(* SpecByte: one call of bitPacker.writeByte on a packer whose sink is a wav *)

InitByte ==
    /\ argByte \in Byte
    /\ curByte = argByte
    /\ loopI = 0
    /\ pc = "writeByte"
    /\ data = <<>>
    /\ sinkWrites = <<>>
    /\ written = <<argByte>>
    /\ rom = <<>> /\ block = 0 /\ out = <<>> /\ logger = <<>> /\ durTenths = 0

\* one iteration of the loop of writeByte
WriteBit ==
    /\ pc = "writeByte"
    /\ loopI < 8
    /\ sinkWrites' = Append(sinkWrites, BitTable(curByte))
    /\ data' = WavWrite(data, BitTable(curByte))
    /\ curByte' = ShiftLeft(curByte)
    /\ loopI' = loopI + 1
    /\ UNCHANGED <<rom, pc, block, written, out, logger, argByte, durTenths>>

WriteByteReturn ==
    /\ pc = "writeByte"
    /\ ~(loopI < 8)
    /\ pc' = "byteDone"
    /\ UNCHANGED <<rom, block, data, written, out, logger, others>>

NextByte ==
    \/ WriteBit
    \/ WriteByteReturn

SpecByte == InitByte /\ [][NextByte]_vars

----------------------------------------------------------------------------
(* SpecDur: one call of bitPacker.writeByteDuration on a packer whose sink is a wav *)

DurBytes == {0, 84, 85, 170, 255}

InitDur ==
    /\ argByte \in DurBytes
    /\ durTenths \in 0..MaxTenths
    /\ loopI = 0
    /\ pc = "writeByteDuration"
    /\ data = <<>>
    /\ written = <<>>
    /\ curByte = 0 /\ sinkWrites = <<>>
    /\ rom = <<>> /\ block = 0 /\ out = <<>> /\ logger = <<>>

\* one iteration of the loop of writeByteDuration
DurIter ==
    /\ pc = "writeByteDuration"
    /\ loopI < durationCount(durTenths)
    /\ written' = Append(written, durationByte(argByte))
    /\ data' = writeBytes(data, <<durationByte(argByte)>>)
    /\ loopI' = loopI + 1
    /\ UNCHANGED <<rom, pc, block, out, logger, curByte, argByte, sinkWrites, durTenths>>

DurReturn ==
    /\ pc = "writeByteDuration"
    /\ ~(loopI < durationCount(durTenths))
    /\ pc' = "durDone"
    /\ UNCHANGED <<rom, block, data, written, out, logger, others>>

NextDur ==
    \/ DurIter
    \/ DurReturn

SpecDur == InitDur /\ [][NextDur]_vars

----------------------------------------------------------------------------
(* Properties *)

\* bit k of the byte b, bit 0 being the least significant
BitOf(b, k) == (b \div (2 ^ k)) % 2

\* the number of 1 bits of b
PopCount(b) == SumRange([k \in 1..8 |-> BitOf(b, k - 1)], 1, 8)

\* the number of 1 bits of the bytes of s
OnesOf(s) == SumRange([k \in 1..Len(s) |-> PopCount(s[k])], 1, Len(s))

\* the layout of the byte stream of a tape: the last index of each part
LCalib == (5 * 689) \div 10
LSync == LCalib + 1
LHeader == LSync + 8
LBlocks == LHeader + (16 * 258)
LTotal == LBlocks + LCalib
LStart == 86 * 51

HeaderDone == pc \in {"blocks", "serialise", "done"}
BlocksDone == pc \in {"serialise", "done"}

\* C1: writeByteDuration(b, d) calls writeByte floor(d * bytesPerSecond) times,
\* every time with the value b (so nothing for d = 0, and the trailer of
\* Convert, writeByteDuration(0x00, endToneSeconds), is a run of 0x00).
C1_DurationWritesB ==
    pc = "durDone" =>
        /\ Len(written) = (durTenths * 689) \div 10
        /\ \A k \in 1..Len(written) : written[k] = argByte

\* C2: the header checksum byte written by Convert is
\* (0x55 - addressLow - addressHigh - 0x1d - 0x10 - 0 - 0xc3 - 0x01) mod 256
\* with addressLow = rom[4092], addressHigh = rom[4093], and the 8 header bytes
\* sum to 0x55 mod 256.
C2_HeaderChecksum ==
    HeaderDone =>
        LET h == SubSeq(written, LSync + 1, LSync + 8)
        IN  /\ h[1] = rom[4092 + 1]
            /\ h[2] = rom[4093 + 1]
            /\ h[3] = 29 /\ h[4] = 16 /\ h[6] = 0 /\ h[7] = 195 /\ h[8] = 1
            /\ h[5] = (85 - rom[4092 + 1] - rom[4093 + 1] - 29 - 16 - 0 - 195 - 1) % 256
            /\ SumRange(h, 1, 8) % 256 = 85

\* the header of a ROM with address 0x1234 and zero data has been written
C2_Witness ==
    /\ HeaderDone
    /\ rom[1] = 0 /\ rom[4092 + 1] = 52 /\ rom[4093 + 1] = 18
    /\ written[LSync + 1] = 52 /\ written[LSync + 2] = 18
    /\ written[LSync + 5] = 30

\* C3: Convert processes exactly 16 blocks, and the checksum byte written for
\* block b is (0x55 - page(b) - sum of rom[256*b .. 256*b+255]) mod 256, so that
\* page + the 256 data bytes + checksum is 0x55 mod 256.
C3_BlockChecksum ==
    HeaderDone =>
        /\ block <= 16
        /\ BlocksDone => (block = 16 /\ Len(written) = LTotal)
        /\ Len(written) >= LHeader + (258 * block)
        /\ \A b \in 0..(block - 1) :
            LET base == LHeader + (258 * b)
                page == written[base + 1]
                cs == written[base + 2]
            IN  /\ cs = (85 - page - SumRange(rom, (256 * b) + 1, (256 * b) + 256)) % 256
                /\ (page + SumRange(written, base + 3, base + 258) + cs) % 256 = 85

\* all 16 blocks of the ROM of pattern 2 have been written; its first block
\* has page 1 and data 2, 4, 6, ... summing to 0 mod 256, hence checksum 0x54
C3_Witness ==
    /\ pc = "done" /\ block = 16
    /\ rom[1] = 2 /\ rom[2] = 4
    /\ written[LHeader + 1] = 1 /\ written[LHeader + 2] = 84
    /\ written[LHeader + 3] = 2

\* C4: the page byte written for block b is 4*b + 1 when that is <= 0x1f and
\* 4*b + 1 - 0x1f otherwise; block 0 gives 1, block 7 gives 29, block 8 gives 2.
C4_Page ==
    HeaderDone =>
        /\ \A b \in 0..(block - 1) :
            written[LHeader + (258 * b) + 1] =
                IF (4 * b) + 1 <= 31 THEN (4 * b) + 1 ELSE (4 * b) + 1 - 31
        /\ block > 0 => written[LHeader + 1] = 1
        /\ block > 7 => written[LHeader + (258 * 7) + 1] = 29
        /\ block > 8 => written[LHeader + (258 * 8) + 1] = 2

\* the blocks past the wrap have been written
C4_Witness ==
    /\ HeaderDone /\ block = 16
    /\ written[LHeader + (258 * 7) + 1] = 29
    /\ written[LHeader + (258 * 8) + 1] = 2
    /\ written[LHeader + (258 * 15) + 1] = 30

\* C5 as stated: the output of Convert is 44 + 8 + N bytes long, N the number
\* of samples in the audio buffer.
C5_LengthAsStated ==
    pc = "done" => BufLen(out) = 44 + 8 + BufLen(data)

\* C5, amended: the output of Convert is 44 + N bytes long, the 44 being 36
\* bytes of RIFF/WAVE/fmt framing and 8 bytes of data sub-chunk header, and the
\* N bytes after them are the samples.
C5_Length ==
    pc = "done" =>
        /\ BufLen(out) = 36 + 8 + BufLen(data)
        /\ SubSeq(BufTake(out, 44), 37, 40) = <<100, 97, 116, 97>>
        /\ DecodeLE(BufTake(out, 44), 41, 4) = BufLen(data)
        /\ Len(out) >= 2
        /\ BufLen(SubSeq(out, 1, 2)) = 44
        /\ SubSeq(out, 3, Len(out)) = data

C5_Witness ==
    /\ pc = "done"
    /\ BufLen(data) > LStart
    /\ BufLen(out) = 44 + BufLen(data)

\* the byte the claim C6 expects at index k of the stream of encoded bytes;
\* the trailer is a run of one value, the one at its first index
ExpectedAt(k) ==
    IF k <= LCalib THEN 85
    ELSE IF k = LSync THEN 84
    ELSE IF k = LSync + 1 THEN rom[4092 + 1]
    ELSE IF k = LSync + 2 THEN rom[4093 + 1]
    ELSE IF k = LSync + 3 THEN 29
    ELSE IF k = LSync + 4 THEN 16
    ELSE IF k = LSync + 5 THEN
        (85 - rom[4092 + 1] - rom[4093 + 1] - 29 - 16 - 0 - 195 - 1) % 256
    ELSE IF k = LSync + 6 THEN 0
    ELSE IF k = LSync + 7 THEN 195
    ELSE IF k = LSync + 8 THEN 1
    ELSE IF k <= LBlocks THEN
        LET b == (k - LHeader - 1) \div 258
            off == (k - LHeader - 1) % 258
            page == IF (4 * b) + 1 <= 31 THEN (4 * b) + 1 ELSE (4 * b) + 1 - 31
        IN  IF off = 0 THEN page
            ELSE IF off = 1 THEN
                (85 - page - SumRange(rom, (256 * b) + 1, (256 * b) + 256)) % 256
            ELSE rom[(256 * b) + (off - 2) + 1]
    ELSE written[LBlocks + 1]

\* the number of bytes encoded when Convert is at pc
ExpectedLen ==
    CASE pc \in {"start", "calibrate"} -> 0
      [] pc = "sync" -> LCalib
      [] pc = "header" -> LSync
      [] pc = "blocks" -> LHeader + (258 * block)
      [] OTHER -> LTotal

\* C6: Convert emits, in this order: the start-tone cycles, written to the
\* audio buffer directly; the calibration run; one sync byte 0x54; the 8 header
\* bytes addressLow, addressHigh, bankConfig, blockCount, checksum, multiload,
\* progressSpeedLow, progressSpeedHigh; the blocks in ascending order, each as
\* page, checksum and its 256 data bytes in ROM order; the trailer run; and
\* only then the container goes to the output sink.  Nothing else is encoded.
C6_EmissionOrder ==
    pc \in {"start", "calibrate", "sync", "header", "blocks", "serialise", "done"} =>
        /\ Len(written) = ExpectedLen
        /\ \A k \in 1..Len(written) : written[k] = ExpectedAt(k)
        /\ pc = "start" => data = <<>>
        /\ pc # "start" =>
            /\ data[1] = [kind |-> "raw", bytes |-> startTone, count |-> 86]
            /\ \A k \in 2..Len(data) : data[k].kind = "enc"
            /\ ConcatRange([k \in 1..(Len(data) - 1) |-> data[k + 1].bytes],
                           1, Len(data) - 1) = written
        /\ pc # "done" => out = <<>>
        /\ pc = "done" => (Len(out) >= 2 /\ SubSeq(out, 3, Len(out)) = data)

\* Convert has run to its end on the ROM of pattern 2 with address 0x1234
C6_Witness ==
    /\ pc = "done"
    /\ rom[1] = 2 /\ rom[4092 + 1] = 52 /\ rom[4093 + 1] = 18
    /\ Len(written) = 4825
    /\ written[LCalib] = 85 /\ written[LSync] = 84 /\ written[LSync + 1] = 52
    /\ written[LHeader + 1] = 1 /\ written[LHeader + 3] = 2
    /\ written[LBlocks] = rom[4096]
    /\ out # <<>>

\* C7 as stated: any two 4096 byte ROMs give the same total sample count.
C7_SameCountAsStated ==
    pc = "done" => \A r \in Roms : BufLen(convertData(r)) = BufLen(data)

\* C7, amended: the number of bytes Convert encodes is the same, 4825, for
\* every 4096 byte ROM, and the sample count is 86*51 + 48 per encoded byte + 4
\* per 1 bit of the encoded bytes: it depends on the ROM through the number of
\* 1 bits of the address bytes, the data bytes and the checksums only.
C7_SampleCount ==
    /\ pc \in {"start", "calibrate", "sync", "header", "blocks", "serialise", "done"} =>
        BufLen(data) = (IF pc = "start" THEN 0 ELSE 86 * 51)
                        + (48 * Len(written)) + (4 * OnesOf(written))
    /\ BlocksDone => Len(written) = 4825

\* Convert has run to its end on a ROM of 0xff data, which has more samples
\* than the ROM of 0x00 data with the same address
C7_Witness ==
    /\ pc = "done"
    /\ rom[1] = 255 /\ rom[4092 + 1] = 0 /\ rom[4093 + 1] = 0
    /\ Len(written) = 4825
    /\ BufLen(data) = (86 * 51) + (48 * 4825) + (4 * OnesOf(written))
    /\ BufLen(data) > BufLen(convertData(MakeRom(0, 0, 0)))

\* C8: the "fmt " sub-chunk of the container Convert produces is 16 bytes long
\* and decodes, little-endian, to format 1, channels 1, sample rate 44100,
\* byte rate 44100 and bit depth 8.
C8_FmtSubChunk ==
    pc = "done" =>
        LET h == BufTake(out, 44)
        IN  /\ Len(h) = 44
            /\ SubSeq(h, 13, 16) = <<102, 109, 116, 32>>
            /\ DecodeLE(h, 17, 4) = 16
            /\ DecodeLE(h, 21, 2) = 1
            /\ DecodeLE(h, 23, 2) = 1
            /\ DecodeLE(h, 25, 4) = 44100
            /\ DecodeLE(h, 29, 4) = 44100
            /\ DecodeLE(h, 35, 2) = 8
            /\ SubSeq(h, 37, 40) = <<100, 97, 116, 97>>

\* the container of a ROM of 0xff data has been written
C8_Witness ==
    /\ pc = "done"
    /\ rom[1] = 255
    /\ BufLen(out) > 44
    /\ DecodeLE(BufTake(out, 44), 25, 4) = 44100

\* C9: writeByte(b) writes to the sink 8 times, the i-th write (i = 0..7) being
\* the one-tone table (10 samples) when bit 7-i of b is 1 and the zero-tone
\* table (6 samples) otherwise; it appends 10*k + 6*(8-k) samples, k the number
\* of 1 bits of b.
C9_WriteByte ==
    /\ pc = "writeByte" => Len(sinkWrites) = loopI
    /\ pc \in {"writeByte", "byteDone"} =>
        /\ \A i \in 0..(Len(sinkWrites) - 1) :
            sinkWrites[i + 1] = IF BitOf(argByte, 7 - i) = 1 THEN oneBit ELSE zeroBit
        /\ BufBytes(data) = ConcatRange(sinkWrites, 1, Len(sinkWrites))
    /\ pc = "byteDone" =>
        /\ Len(sinkWrites) = 8
        /\ Len(oneBit) = 10 /\ Len(zeroBit) = 6
        /\ BufLen(data) = (10 * PopCount(argByte)) + (6 * (8 - PopCount(argByte)))
        /\ BufBytes(data) = writeByte[argByte]

\* writeByte(0x54) has returned: 3 one-tones and 5 zero-tones, 60 samples
C9_Witness ==
    /\ pc = "byteDone"
    /\ argByte = 84
    /\ sinkWrites = <<zeroBit, oneBit, zeroBit, oneBit, zeroBit, oneBit, zeroBit, zeroBit>>
    /\ BufLen(data) = 60

\* C10: the block-align field of the "fmt " sub-chunk is the number of bytes of
\* a sample frame, channels * depth / 8, which is 1 for channels 1, depth 8.
C10_BlockAlign ==
    pc = "done" => DecodeLE(BufTake(out, 44), 33, 2) = (1 * 8) \div 8

====
